---- MODULE Spec2Model ----
(***************************************************************************)
(* Model of portable-homeserver/scripts/patch_android_manifest.py.         *)
(*                                                                         *)
(* The state is the part of the filesystem the script touches (the         *)
(* manifest file, the res/xml directory, the companion                     *)
(* network_security_config.xml), the in-memory ElementTree of the running  *)
(* process and the position of the process inside main().  Every I/O step  *)
(* of main() is one action because each of them can fail on its own; the   *)
(* script may be invoked again on whatever the previous invocation left    *)
(* on disk.                                                                *)
(*                                                                         *)
(* A manifest file is described by the list of the root's children, the    *)
(* whitespace between the elements (ws), the prologue/prefix/comment       *)
(* layout (head) and the number of newline bytes at its end (nl).  Parsing *)
(* keeps only the children and the whitespace; serialising writes the      *)
(* ElementTree head and the root's tail.                                   *)
(***************************************************************************)
EXTENDS Integers, Sequences, FiniteSets, TLC

\* ---------------------------------------------------------------- bounds
MaxChildren == 3
MaxRuns == 2

\* ------------------------------------------------------------- constants
None == "none"
INTERNET == "android.permission.INTERNET"
ACCESS_NETWORK_STATE == "android.permission.ACCESS_NETWORK_STATE"
NSC_VALUE == "@xml/network_security_config"
NETWORK_SECURITY_CONFIG == "literal"
SystemExit == "error"

\* ------------------------------------------------------------- elements
\* name     : value of {android-ns}name, rawName : value of un-namespaced name
\* cleartext: value of {android-ns}usesCleartextTraffic
\* nsc      : value of {android-ns}networkSecurityConfig
Element(t, n, r, c, s) ==
    [tag |-> t, name |-> n, rawName |-> r, cleartext |-> c, nsc |-> s]

Perm(n) == Element("uses-permission", n, None, None, None)

PlainPerm == Element("uses-permission", None, INTERNET, None, None)

App(c, s) == Element("application", None, None, c, s)

UsesSdk == Element("uses-sdk", None, None, None, None)

\* children of the manifests the script is started on; an application element
\* that already carries the config reference is what a first run leaves
Elements ==
    { Perm(INTERNET), Perm(ACCESS_NETWORK_STATE), PlainPerm, UsesSdk,
      App(None, None), App("true", None), App("true", "@xml/other") }

ChildLists == UNION { [1..n -> Elements] : n \in 0..MaxChildren }

\* ---------------------------------------------------------------- files
XmlFile(ch, w, h, n) ==
    [kind |-> "xml", children |-> ch, ws |-> w, head |-> h, nl |-> n]

MissingFile == [kind |-> "missing", children |-> <<>>, ws |-> None, head |-> None, nl |-> 0]

MalformedFile == [kind |-> "malformed", children |-> <<>>, ws |-> None, head |-> None, nl |-> 1]

PartialFile == [kind |-> "partial", children |-> <<>>, ws |-> None, head |-> None, nl |-> 0]

\* layouts <<ws, head, nl>> of the manifests the script is started on: hand-
\* or tool-written ones, with or without a final newline; ElementTree's own
\* layout is what a first run leaves
InputLayouts ==
    { <<"source", "source", 0>>, <<"source", "source", 1>> }

InputManifests ==
    { XmlFile(ch, l[1], l[2], l[3]) : ch \in ChildLists, l \in InputLayouts }
      \cup {MissingFile, MalformedFile}

NoTree == [children |-> <<>>, ws |-> None]

\* ET.parse: comments, the prologue, prefixes and everything after the root
\* element are not part of the tree; text and tail whitespace are
load_manifest(file) == [children |-> file.children, ws |-> file.ws]

\* number of newline bytes the ElementTree serialiser leaves at the end
SerializerNewlines == {0, 1}

\* tree.write(path, encoding="utf-8", xml_declaration=True)
write(tree, n) == XmlFile(tree.children, tree.ws, "et", n)

\* ET.indent(tree, space="    "): a root without children is left alone
indent(tree) ==
    IF Len(tree.children) = 0 THEN tree ELSE [tree EXCEPT !.ws = "indent4"]

\* ------------------------------------------------------ tree operations
\* manifest.find(tag): index of the first direct child with that tag, 0 if none
find(children, tag) ==
    IF \E i \in 1..Len(children) : children[i].tag = tag
    THEN CHOOSE i \in 1..Len(children) :
            /\ children[i].tag = tag
            /\ \A j \in 1..(i - 1) : children[j].tag # tag
    ELSE 0

\* variant: the new element is always appended to the root
insert_index_append(children) == Len(children)

\* variant: the new element is always put first
insert_index_front(children) == 0

\* 0-based position handed to manifest.insert
insert_index(children) ==
    IF find(children, "application") = 0
    THEN Len(children)
    ELSE find(children, "application") - 1

\* list.insert(idx, node) with a 0-based idx
insert(children, idx, node) ==
    SubSeq(children, 1, idx) \o <<node>> \o SubSeq(children, idx + 1, Len(children))

\* variant: the lookup reads the un-namespaced name attribute
has_permission_raw(children, permission) ==
    \E i \in 1..Len(children) :
        /\ children[i].tag = "uses-permission"
        /\ children[i].rawName = permission

has_permission(children, permission) ==
    \E i \in 1..Len(children) :
        /\ children[i].tag = "uses-permission"
        /\ children[i].name = permission

\* variant: no look-up of an existing element before inserting
ensure_permission_unchecked(children, permission) ==
    insert(children, insert_index(children), Perm(permission))

ensure_permission(children, permission) ==
    IF has_permission(children, permission)
    THEN children
    ELSE insert(children, insert_index(children), Perm(permission))

\* callers check find(children, "application") # 0 first
remove_application_attribute(children) ==
    [children EXCEPT ![find(children, "application")].cleartext = None]

\* variant: the attribute is only set when the element has none
ensure_application_attribute_if_absent(children, value) ==
    LET a == find(children, "application") IN
    IF children[a].nsc = None
    THEN [children EXCEPT ![a].nsc = value]
    ELSE children

ensure_application_attribute(children, value) ==
    LET a == find(children, "application") IN
    IF children[a].nsc # value
    THEN [children EXCEPT ![a].nsc = value]
    ELSE children

\* variant: the literal is written without comparing
needs_write_always(current) == TRUE

\* ensure_network_security_config: write unless the content is the literal
needs_write(current) == current # NETWORK_SECURITY_CONFIG

\* variant: the tree is written before the application element is looked up
main_write_first ==
    << "ensure_permission_INTERNET",
       "ensure_permission_ACCESS_NETWORK_STATE",
       "indent",
       "write",
       "trailing_newline",
       "remove_application_attribute",
       "ensure_application_attribute",
       "ensure_network_security_config" >>

\* variant: the companion file is materialised after the manifest is written
main_config_last ==
    << "ensure_permission_INTERNET",
       "ensure_permission_ACCESS_NETWORK_STATE",
       "remove_application_attribute",
       "ensure_application_attribute",
       "indent",
       "write",
       "trailing_newline",
       "ensure_network_security_config" >>

\* variant: the companion file is materialised before the application
\* element is looked up
main_config_first ==
    << "ensure_permission_INTERNET",
       "ensure_permission_ACCESS_NETWORK_STATE",
       "ensure_network_security_config",
       "remove_application_attribute",
       "ensure_application_attribute",
       "indent",
       "write",
       "trailing_newline" >>

\* ------------------------------------------------------------ main()
main ==
    << "ensure_permission_INTERNET",
       "ensure_permission_ACCESS_NETWORK_STATE",
       "remove_application_attribute",
       "ensure_application_attribute",
       "ensure_network_security_config",
       "indent",
       "write",
       "trailing_newline" >>

VARIABLES
    manifestFile,   \* the file at args.manifest
    resDir,         \* TRUE iff <manifest-dir>/res/xml exists
    configFile,     \* res/xml/network_security_config.xml
    configWrites,   \* number of completed write_text calls on configFile
    hasIndent,      \* hasattr(ET, "indent") of the interpreter in use
    tree,           \* the ElementTree of the running process
    pc,             \* 0: no process running, else index into main
    exit,           \* status of the last finished run
    failedAt,       \* step at which the last finished run failed
    run,            \* number of finished runs
    prevExit,       \* status of the run before the last started one
    origManifest,   \* manifestFile when the last run started
    origResDir,     \* resDir when the last run started
    origConfig,     \* configFile when the last run started
    origWrites      \* configWrites when the last run started

vars == << manifestFile, resDir, configFile, configWrites, hasIndent, tree, pc,
           exit, failedAt, run, prevExit, origManifest, origResDir, origConfig,
           origWrites >>

fsVars == << manifestFile, resDir, configFile, configWrites >>

origVars == << prevExit, origManifest, origResDir, origConfig, origWrites >>

\* <<res/xml exists, content of the companion file>> before the first run
ConfigStates == { <<FALSE, "absent">>,
                  <<TRUE, NETWORK_SECURITY_CONFIG>>, <<TRUE, "other">> }

Init ==
    /\ manifestFile \in InputManifests
    /\ \E c \in ConfigStates : resDir = c[1] /\ configFile = c[2]
    /\ configWrites = 0
    /\ hasIndent \in BOOLEAN
    /\ tree = NoTree
    /\ pc = 0
    /\ exit = None
    /\ failedAt = None
    /\ run = 0
    /\ prevExit = None
    /\ origManifest = manifestFile
    /\ origResDir = resDir
    /\ origConfig = configFile
    /\ origWrites = 0

\* the process ends with a non-zero status at the current step
Fail(step) ==
    /\ pc' = 0
    /\ exit' = SystemExit
    /\ failedAt' = step
    /\ run' = run + 1

\* the current step returned; after the last one the process exits with 0
Advance ==
    IF pc = Len(main)
    THEN /\ pc' = 0
         /\ exit' = "ok"
         /\ failedAt' = None
         /\ run' = run + 1
    ELSE /\ pc' = pc + 1
         /\ UNCHANGED << exit, failedAt, run >>

At(step) == pc > 0 /\ main[pc] = step

\* parse_args(); load_manifest(args.manifest); tree.getroot()
LoadManifest ==
    /\ pc = 0
    /\ run < MaxRuns
    /\ manifestFile.kind = "xml"
    /\ tree' = load_manifest(manifestFile)
    /\ pc' = 1
    /\ exit' = "running"
    /\ failedAt' = None
    /\ prevExit' = exit
    /\ origManifest' = manifestFile
    /\ origResDir' = resDir
    /\ origConfig' = configFile
    /\ origWrites' = configWrites
    /\ UNCHANGED << fsVars, hasIndent, run >>

\* FileNotFoundError or ET.ParseError in load_manifest
LoadManifestFails ==
    /\ pc = 0
    /\ run < MaxRuns
    /\ manifestFile.kind # "xml"
    /\ Fail("load_manifest")
    /\ prevExit' = exit
    /\ origManifest' = manifestFile
    /\ origResDir' = resDir
    /\ origConfig' = configFile
    /\ origWrites' = configWrites
    /\ UNCHANGED << fsVars, hasIndent, tree >>

EnsurePermissionInternet ==
    /\ At("ensure_permission_INTERNET")
    /\ tree' = [tree EXCEPT !.children = ensure_permission(@, INTERNET)]
    /\ Advance
    /\ UNCHANGED << fsVars, hasIndent, origVars >>

EnsurePermissionNetworkState ==
    /\ At("ensure_permission_ACCESS_NETWORK_STATE")
    /\ tree' = [tree EXCEPT !.children = ensure_permission(@, ACCESS_NETWORK_STATE)]
    /\ Advance
    /\ UNCHANGED << fsVars, hasIndent, origVars >>

RemoveApplicationAttribute ==
    /\ At("remove_application_attribute")
    /\ IF find(tree.children, "application") = 0
       THEN /\ Fail("remove_application_attribute")
            /\ UNCHANGED tree
       ELSE /\ tree' = [tree EXCEPT !.children = remove_application_attribute(@)]
            /\ Advance
    /\ UNCHANGED << fsVars, hasIndent, origVars >>

EnsureApplicationAttribute ==
    /\ At("ensure_application_attribute")
    /\ IF find(tree.children, "application") = 0
       THEN /\ Fail("ensure_application_attribute")
            /\ UNCHANGED tree
       ELSE /\ tree' = [tree EXCEPT !.children = ensure_application_attribute(@, NSC_VALUE)]
            /\ Advance
    /\ UNCHANGED << fsVars, hasIndent, origVars >>

\* ensure_network_security_config(args.manifest): mkdir, read_text, compare,
\* write_text; each of the three filesystem calls may raise
EnsureNetworkSecurityConfig ==
    /\ At("ensure_network_security_config")
    /\ \E outcome \in {"mkdir_fails", "read_fails", "write_fails", "returns"} :
         LET current == IF configFile = "absent" THEN None ELSE configFile IN
         CASE outcome = "mkdir_fails" ->
                /\ ~resDir
                /\ Fail("ensure_network_security_config")
                /\ UNCHANGED << resDir, configFile, configWrites >>
           [] outcome = "read_fails" ->
                /\ configFile # "absent"
                /\ resDir' = TRUE
                /\ Fail("ensure_network_security_config")
                /\ UNCHANGED << configFile, configWrites >>
           [] outcome = "write_fails" ->
                /\ needs_write(current)
                /\ resDir' = TRUE
                /\ configFile' \in {configFile, "partial"}
                /\ Fail("ensure_network_security_config")
                /\ UNCHANGED configWrites
           [] outcome = "returns" ->
                /\ resDir' = TRUE
                /\ IF needs_write(current)
                   THEN /\ configFile' = NETWORK_SECURITY_CONFIG
                        /\ configWrites' = configWrites + 1
                   ELSE UNCHANGED << configFile, configWrites >>
                /\ Advance
    /\ UNCHANGED << manifestFile, hasIndent, tree, origVars >>

\* if hasattr(ET, "indent"): ET.indent(tree, space="    ")
Indent ==
    /\ At("indent")
    /\ tree' = IF hasIndent THEN indent(tree) ELSE tree
    /\ Advance
    /\ UNCHANGED << fsVars, hasIndent, origVars >>

\* tree.write(...): the file is opened for writing (truncated) and filled; an
\* OSError leaves it untouched (open failed) or cut short (write failed)
WriteManifest ==
    /\ At("write")
    /\ \/ /\ \E n \in SerializerNewlines : manifestFile' = write(tree, n)
          /\ Advance
       \/ /\ manifestFile' \in {manifestFile, PartialFile}
          /\ Fail("write")
    /\ UNCHANGED << resDir, configFile, configWrites, hasIndent, tree, origVars >>

\* variant: the newline is appended without looking at the last byte
trailing_newline_always(file) ==
    IF file.kind # "xml" THEN file ELSE [file EXCEPT !.nl = @ + 1]

\* the bytes of the file after the rb+ fix-up: nothing for an empty file,
\* one "\n" appended unless the last byte is "\n"
trailing_newline(file) ==
    IF file.kind # "xml"
    THEN file
    ELSE IF file.nl = 0 THEN [file EXCEPT !.nl = 1] ELSE file

\* with args.manifest.open("rb+") ...; open() may raise
FixTrailingNewline ==
    /\ At("trailing_newline")
    /\ \/ /\ manifestFile' = trailing_newline(manifestFile)
          /\ Advance
       \/ /\ UNCHANGED manifestFile
          /\ Fail("trailing_newline")
    /\ UNCHANGED << resDir, configFile, configWrites, hasIndent, tree, origVars >>

Next ==
    \/ LoadManifest
    \/ LoadManifestFails
    \/ EnsurePermissionInternet
    \/ EnsurePermissionNetworkState
    \/ RemoveApplicationAttribute
    \/ EnsureApplicationAttribute
    \/ EnsureNetworkSecurityConfig
    \/ Indent
    \/ WriteManifest
    \/ FixTrailingNewline

Spec == Init /\ [][Next]_vars

TypeOK ==
    /\ pc \in 0..Len(main)
    /\ run \in 0..MaxRuns
    /\ configWrites \in 0..MaxRuns
    /\ resDir \in BOOLEAN
    /\ configFile \in {"absent", NETWORK_SECURITY_CONFIG, "other", "partial"}
    /\ exit \in {None, "running", "ok", SystemExit}

\* ------------------------------------------------------------ properties
Succeeded == pc = 0 /\ exit = "ok"

Failed == pc = 0 /\ exit = SystemExit

RequiredPermissions == {INTERNET, ACCESS_NETWORK_STATE}

PermissionIndexes(children, permission) ==
    { i \in 1..Len(children) :
        children[i].tag = "uses-permission" /\ children[i].name = permission }

PermissionCount(children, permission) ==
    Cardinality(PermissionIndexes(children, permission))

PermissionNames(children) ==
    { children[i].name : i \in { j \in 1..Len(children) :
        children[j].tag = "uses-permission" /\ children[j].name # None } }

HasApplication(file) ==
    file.kind = "xml" /\ \E i \in 1..Len(file.children) : file.children[i].tag = "application"

FirstApplication(file) ==
    CHOOSE i \in 1..Len(file.children) :
        /\ file.children[i].tag = "application"
        /\ \A j \in 1..(i - 1) : file.children[j].tag # "application"

\* C1: a successful run that follows a successful run (and so starts on the
\* first run's output) leaves the manifest file byte-identical.
C1_Idempotent ==
    (Succeeded /\ prevExit = "ok") => manifestFile = origManifest

C1_Witness ==
    /\ Succeeded
    /\ prevExit = "ok"
    /\ run = 2
    /\ manifestFile = origManifest
    /\ PermissionCount(manifestFile.children, INTERNET) = 1

\* C2: a manifest whose root has no application child makes the run end with
\* a non-zero status, and the manifest file is never written by that run.
C2_MissingApplication ==
    (origManifest.kind = "xml" /\ ~HasApplication(origManifest)) =>
        /\ manifestFile = origManifest
        /\ (pc = 0 /\ run > 0) => exit = SystemExit

C2_Witness ==
    /\ Failed
    /\ failedAt = "remove_application_attribute"
    /\ origManifest.kind = "xml"
    /\ ~HasApplication(origManifest)
    /\ tree.children # origManifest.children
    /\ manifestFile = origManifest

\* C3 (as claimed): in every failed run, whichever step failed, the manifest
\* file on disk equals the original.
C3_EveryFailureLeavesManifest ==
    Failed => manifestFile = origManifest

\* C3 (amended): a run that fails while loading, at the application-element
\* check or in ensure_network_security_config leaves the manifest file equal
\* to the original.
C3_FailureBeforeWrite ==
    (Failed /\ failedAt \in { "load_manifest", "remove_application_attribute",
                             "ensure_application_attribute",
                             "ensure_network_security_config" })
        => manifestFile = origManifest

C3_Witness ==
    /\ Failed
    /\ failedAt = "ensure_network_security_config"
    /\ tree.children # origManifest.children
    /\ manifestFile = origManifest

\* C4: when the input has an application element and neither required
\* permission, the output has exactly one uses-permission child per required
\* name, both before the application element.
C4_PermissionsAdded ==
    ( /\ Succeeded
      /\ HasApplication(origManifest)
      /\ \A p \in RequiredPermissions : PermissionCount(origManifest.children, p) = 0 )
    => /\ HasApplication(manifestFile)
       /\ \A p \in RequiredPermissions :
            /\ PermissionCount(manifestFile.children, p) = 1
            /\ \A i \in PermissionIndexes(manifestFile.children, p) :
                 i < FirstApplication(manifestFile)

C4_Witness ==
    /\ Succeeded
    /\ HasApplication(origManifest)
    /\ \A p \in RequiredPermissions : PermissionCount(origManifest.children, p) = 0
    /\ Len(origManifest.children) = 3
    /\ FirstApplication(origManifest) = 2
    /\ \A p \in RequiredPermissions : PermissionCount(manifestFile.children, p) = 1

\* C5: after a successful run the application element found by the patcher
\* has networkSecurityConfig = @xml/network_security_config and no
\* usesCleartextTraffic attribute, whatever the two attributes were before.
C5_ApplicationAttributes ==
    Succeeded =>
        /\ HasApplication(manifestFile)
        /\ manifestFile.children[FirstApplication(manifestFile)].nsc = NSC_VALUE
        /\ manifestFile.children[FirstApplication(manifestFile)].cleartext = None

C5_Witness ==
    /\ Succeeded
    /\ HasApplication(origManifest)
    /\ origManifest.children[FirstApplication(origManifest)] = App("true", "@xml/other")
    /\ manifestFile.children[FirstApplication(manifestFile)] = App(None, NSC_VALUE)

\* C6: a call of ensure_network_security_config that returns has written the
\* literal exactly when the file was absent or different, has written nothing
\* when the content already was the literal, leaves the content equal to the
\* literal, and a call in a run that follows a successful run never writes.
C6_ConfigWritePolicy ==
    /\ [](prevExit = "ok" => configWrites = origWrites)
    /\ [][ (At("ensure_network_security_config") /\ exit' # SystemExit) =>
             /\ configFile' = NETWORK_SECURITY_CONFIG
             /\ resDir'
             /\ IF configFile = NETWORK_SECURITY_CONFIG
                THEN configWrites' = configWrites
                ELSE configWrites' = configWrites + 1 ]_vars

C6_Witness ==
    /\ Succeeded
    /\ run = 2
    /\ prevExit = "ok"
    /\ configFile = NETWORK_SECURITY_CONFIG
    /\ configWrites = 1
    /\ origWrites = 1

\* C7: after a successful run the manifest file ends with exactly one newline
\* byte, whether the serialiser ended its output with a newline or not.
C7_OneTrailingNewline ==
    Succeeded => (manifestFile.kind = "xml" /\ manifestFile.nl = 1)

C7_Witness ==
    /\ Succeeded
    /\ origManifest.nl = 0
    /\ manifestFile.nl = 1

\* C8 (as claimed): after a successful run no two uses-permission children of
\* the root carry the same android:name, for every input.
C8_NoDuplicates ==
    Succeeded =>
        \A p \in PermissionNames(manifestFile.children) :
            PermissionCount(manifestFile.children, p) = 1

\* C8 (amended): a successful run adds one element for each required name
\* that was absent and otherwise leaves the number of uses-permission
\* children per android:name as it was; an input without duplicates gives an
\* output without duplicates.
C8_NoNewDuplicates ==
    Succeeded =>
        /\ \A p \in PermissionNames(manifestFile.children) \cup RequiredPermissions :
             PermissionCount(manifestFile.children, p) =
                IF p \in RequiredPermissions /\ PermissionCount(origManifest.children, p) = 0
                THEN 1
                ELSE PermissionCount(origManifest.children, p)
        /\ (\A p \in PermissionNames(origManifest.children) :
                PermissionCount(origManifest.children, p) = 1)
           => (\A p \in PermissionNames(manifestFile.children) :
                PermissionCount(manifestFile.children, p) = 1)

C8_Witness ==
    /\ Succeeded
    /\ PermissionCount(origManifest.children, INTERNET) = 1
    /\ PermissionCount(origManifest.children, ACCESS_NETWORK_STATE) = 0
    /\ PermissionCount(manifestFile.children, INTERNET) = 1
    /\ PermissionCount(manifestFile.children, ACCESS_NETWORK_STATE) = 1

\* the list without its element at (1-based) position i
Without(children, i) ==
    SubSeq(children, 1, i - 1) \o SubSeq(children, i + 1, Len(children))

InsertedBeforeApplication(before, after, permission) ==
    IF has_permission(before, permission)
    THEN after = before
    ELSE LET a == find(after, "application") IN
         IF find(before, "application") = 0
         THEN /\ a = 0
              /\ after[Len(after)] = Perm(permission)
              /\ Without(after, Len(after)) = before
         ELSE /\ a = find(before, "application") + 1
              /\ after[a - 1] = Perm(permission)
              /\ Without(after, a - 1) = before

\* C9: ensure_permission leaves the list alone when the permission is
\* present, else puts the new element directly before the first application
\* child, or last when there is none; when both required permissions were
\* missing the list then reads ..., INTERNET, ACCESS_NETWORK_STATE,
\* application (or ends with INTERNET, ACCESS_NETWORK_STATE).
C9_InsertionOrder ==
    /\ [][ /\ At("ensure_permission_INTERNET") =>
                InsertedBeforeApplication(tree.children, tree'.children, INTERNET)
           /\ At("ensure_permission_ACCESS_NETWORK_STATE") =>
                InsertedBeforeApplication(tree.children, tree'.children, ACCESS_NETWORK_STATE)
         ]_vars
    /\ []( ( /\ At("remove_application_attribute")
             /\ \A p \in RequiredPermissions : PermissionCount(origManifest.children, p) = 0 )
           => LET c == tree.children
                  e == IF find(c, "application") = 0 THEN Len(c) + 1 ELSE find(c, "application")
              IN  /\ e >= 3
                  /\ c[e - 2] = Perm(INTERNET)
                  /\ c[e - 1] = Perm(ACCESS_NETWORK_STATE) )

C9_Witness ==
    /\ At("remove_application_attribute")
    /\ \A p \in RequiredPermissions : PermissionCount(origManifest.children, p) = 0
    /\ Len(tree.children) = 5
    /\ tree.children[2] = Perm(INTERNET)
    /\ tree.children[3] = Perm(ACCESS_NETWORK_STATE)
    /\ tree.children[4].tag = "application"

\* C10: a run that fails for a missing application element has not created
\* res/xml, has not created or written network_security_config.xml and has
\* not written the manifest.
C10_NoCompanionOnMissingApplication ==
    (Failed /\ failedAt \in {"remove_application_attribute", "ensure_application_attribute"})
        => /\ resDir = origResDir
           /\ configFile = origConfig
           /\ configWrites = origWrites
           /\ manifestFile = origManifest

C10_Witness ==
    /\ Failed
    /\ failedAt = "remove_application_attribute"
    /\ ~resDir
    /\ configFile = "absent"
    /\ manifestFile = origManifest

====
